---- MODULE Spec2Model ----
(***************************************************************************)
(* Model of CloudComputeSDK (src/src/lib/sdkClient.ts): the constructor,   *)
(* the private request() chokepoint and the twelve resource-group methods. *)
(*                                                                         *)
(* Text.  A JavaScript string is modelled as a sequence of tokens.  A      *)
(* token is either a single character that matters to URL syntax or to     *)
(* form encoding ("/", "?", "#", "&", "=", " ", "x", a digit, ...), or a   *)
(* literal of the source that is never split ("sdk-providers", "limit",    *)
(* "HTTP ").  Caller-supplied text only uses single-character tokens that  *)
(* begin no literal, so two token sequences are equal exactly when the     *)
(* strings they spell are byte-identical, and concatenation is \o.         *)
(***************************************************************************)
EXTENDS Integers, Sequences, FiniteSets, TLC

VARIABLES
    config,   \* config[c]: the SDKConfig handed to the constructor of client c
    sdk,      \* sdk[c]: the instance fields of client c (baseUrl, apiKey)
    calls     \* the public method calls made so far, in invocation order

vars == <<config, sdk, calls>>

----------------------------------------------------------------------------
(* Bounds of the model.                                                    *)

\* concurrent public method calls on the one client of Spec
MaxCalls == 2
\* optional parameters a caller passes with a value other than undefined
MaxSetParams == 2
\* length of the baseUrl values tried by SpecUrl
MaxBaseLen == 3

----------------------------------------------------------------------------
(* JavaScript values a caller can pass for a parameter.                    *)

Undefined == [t |-> "undefined", s |-> <<>>, n |-> 0]
Null      == [t |-> "null",      s |-> <<>>, n |-> 0]
NaN       == [t |-> "NaN",       s |-> <<>>, n |-> 0]  \* typeof NaN is 'number'
StrV(str) == [t |-> "string",    s |-> str,  n |-> 0]
NumV(num) == [t |-> "number",    s |-> <<>>, n |-> num]

\* the condition of `if (x)`: undefined, null, '', 0 and NaN are falsy
Truthy(v) ==
    \/ v.t = "string" /\ v.s # <<>>
    \/ v.t = "number" /\ v.n # 0

Digit(d) == <<"0", "1", "2", "3", "4", "5", "6", "7", "8", "9">>[d + 1]

RECURSIVE Digits(_)
Digits(num) ==
    IF num < 10 THEN <<Digit(num)>>
    ELSE Digits(num \div 10) \o <<Digit(num % 10)>>

\* Number.prototype.toString() for integers, and for NaN
NumberToString(v) ==
    IF v.t = "NaN" THEN <<"NaN">>
    ELSE IF v.n < 0 THEN <<"-">> \o Digits(0 - v.n)
    ELSE Digits(v.n)

\* the string a truthy parameter is set to: strings as they are, numbers
\* through .toString()
ValueText(v) == IF v.t = "string" THEN v.s ELSE NumberToString(v)

----------------------------------------------------------------------------
(* URLSearchParams: an ordered list of <<name, value>> pairs.              *)

RECURSIVE DropName(_, _)
DropName(sp, name) ==
    IF sp = <<>> THEN <<>>
    ELSE IF Head(sp)[1] = name THEN DropName(Tail(sp), name)
    ELSE <<Head(sp)>> \o DropName(Tail(sp), name)

HasName(sp, name) == \E i \in 1..Len(sp) : sp[i][1] = name

FirstIndex(sp, name) ==
    CHOOSE i \in 1..Len(sp) :
        sp[i][1] = name /\ \A j \in 1..(i - 1) : sp[j][1] # name

\* URLSearchParams.set: the first pair of that name takes the value and the
\* others go; with no such pair, the pair is appended
SearchParamsSet(sp, name, value) ==
    IF HasName(sp, name)
    THEN LET i == FirstIndex(sp, name)
         IN  SubSeq(sp, 1, i - 1) \o <<<<name, value>>>>
                 \o DropName(SubSeq(sp, i + 1, Len(sp)), name)
    ELSE Append(sp, <<name, value>>)

\* application/x-www-form-urlencoded byte serialisation of one character:
\* alphanumerics and * - . _ stay, the space becomes +, the rest %XX
EncodeChar(c) ==
    CASE c = " " -> "+"
      [] c = "&" -> "%26"
      [] c = "=" -> "%3D"
      [] c = "#" -> "%23"
      [] c = "?" -> "%3F"
      [] c = "/" -> "%2F"
      [] c = "+" -> "%2B"
      [] c = "%" -> "%25"
      [] OTHER   -> c

RECURSIVE FormEncode(_)
FormEncode(str) ==
    IF str = <<>> THEN <<>>
    ELSE <<EncodeChar(Head(str))>> \o FormEncode(Tail(str))

RECURSIVE SearchParamsToString(_)
\* URLSearchParams.toString(): name=value pairs joined by &
SearchParamsToString(sp) ==
    IF sp = <<>> THEN <<>>
    ELSE FormEncode(Head(sp)[1]) \o <<"=">> \o FormEncode(Head(sp)[2])
         \o (IF Tail(sp) = <<>> THEN <<>>
             ELSE <<"&">> \o SearchParamsToString(Tail(sp)))

----------------------------------------------------------------------------
(* JSON values of a response body.  An object is described by its `error`  *)
(* and `data` members; a member is absent, null, a string or a number.     *)

AbsentF    == [t |-> "absent", s |-> <<>>, n |-> 0]
NullF      == [t |-> "null",   s |-> <<>>, n |-> 0]
StrF(str)  == [t |-> "string", s |-> str,  n |-> 0]
NumF(num)  == [t |-> "number", s |-> <<>>, n |-> num]

NoMembers  == [error |-> AbsentF, data |-> AbsentF]

JNone      == [t |-> "none",   s |-> <<>>, n |-> 0, f |-> NoMembers]
JNull      == [t |-> "null",   s |-> <<>>, n |-> 0, f |-> NoMembers]
JArray     == [t |-> "array",  s |-> <<>>, n |-> 0, f |-> NoMembers]
JStr(str)  == [t |-> "string", s |-> str,  n |-> 0, f |-> NoMembers]
JNum(num)  == [t |-> "number", s |-> <<>>, n |-> num, f |-> NoMembers]
JObj(e, d) == [t |-> "object", s |-> <<>>, n |-> 0,
               f |-> [error |-> e, data |-> d]]

\* the object request() puts in place of a body that does not decode
ParseFailure == JObj(StrF(<<"Failed to parse response body as JSON">>), AbsentF)


\* a slip: only `'error' in parsed` is tested, not that it is a string
HasAnyError(parsed) ==
    /\ parsed.t \in {"object", "array"}
    /\ parsed.f.error.t # "absent"

\* typeof parsed === 'object' && parsed !== null && 'error' in parsed &&
\* typeof parsed.error === 'string'   (typeof [] is 'object'; an array has
\* no 'error' member)
HasStringError(parsed) ==
    /\ parsed.t \in {"object", "array"}
    /\ parsed.f.error.t # "absent"
    /\ parsed.f.error.t = "string"

\* response.ok
Ok(status) == status >= 200 /\ status <= 299


\* a slip: the body's error member is never looked at
StatusMessage(status, parsed) == <<"HTTP ">> \o NumberToString(NumV(status))

\* the message of the Error request() throws for a response that is not ok
ErrorMessage(status, parsed) ==
    IF HasStringError(parsed) THEN parsed.f.error.s
    ELSE <<"HTTP ">> \o NumberToString(NumV(status))

NoResult == [kind |-> "none", value |-> JNone, message |-> <<>>]

\* how request() ends once the body is parsed: throw new Error(message) when
\* the response is not ok, return parsed otherwise
Outcome(status, parsed) ==
    IF ~Ok(status)
    THEN [kind |-> "Error", value |-> JNone,
          message |-> ErrorMessage(status, parsed)]
    ELSE [kind |-> "value", value |-> parsed, message |-> <<>>]

----------------------------------------------------------------------------
(* The constructor.                                                        *)


\* a slip: no normalisation at all
StripNothing(str) == str

\* a slip: replace('/', '') removes the first '/' of the string, not one at
\* its end
StripFirstSlash(str) ==
    IF \E i \in 1..Len(str) : str[i] = "/"
    THEN LET i == CHOOSE k \in 1..Len(str) :
                      str[k] = "/" /\ \A j \in 1..(k - 1) : str[j] # "/"
         IN  SubSeq(str, 1, i - 1) \o SubSeq(str, i + 1, Len(str))
    ELSE str

\* config.baseUrl.replace(/\/$/, ''): one '/' at the very end is removed
StripTrailingSlash(str) ==
    IF str # <<>> /\ str[Len(str)] = "/" THEN SubSeq(str, 1, Len(str) - 1)
    ELSE str

New(cfg) == [baseUrl |-> StripTrailingSlash(cfg.baseUrl), apiKey |-> cfg.apiKey]

Clients == DOMAIN sdk

----------------------------------------------------------------------------
(* request(): the part up to the fetch call.                               *)

\* RequestInit as the public methods build it; GET is what fetch uses when
\* no method is given
NoHeaders  == <<>>
NoOptions  == [method |-> "GET", hasBody |-> FALSE, body |-> <<>>,
               headers |-> NoHeaders]

RECURSIVE Spread(_, _)
\* {...a, ...b}: the members of b are set over those of a, in order
Spread(a, b) ==
    IF b = <<>> THEN a
    ELSE Spread(SearchParamsSet(a, Head(b)[1], Head(b)[2]), Tail(b))


\* a slip: the key is sent URL-encoded, not verbatim
EncodedKeyHeaders(c, options) ==
    Spread(<< <<"Content-Type", <<"application/json">> >>,
              <<"x-api-key", FormEncode(sdk[c].apiKey)>> >>,
           options.headers)

RequestHeaders(c, options) ==
    Spread(<< <<"Content-Type", <<"application/json">> >>,
              <<"x-api-key", sdk[c].apiKey>> >>,
           options.headers)

RequestUrl(c, endpoint) == sdk[c].baseUrl \o endpoint

\* the call as it stands when request() has called fetch and awaits it
request(c, m, args, endpoint, options) ==
    [client   |-> c,
     method   |-> m,
     args     |-> args,
     endpoint |-> endpoint,
     url      |-> RequestUrl(c, endpoint),
     init     |-> [options EXCEPT !.headers = RequestHeaders(c, options)],
     nfetch   |-> 1,
     pc       |-> "fetch",
     status   |-> 0,
     decoded  |-> "none",
     body     |-> JNone,
     parsed   |-> JNone,
     result   |-> NoResult]


\* a slip: request() keeps the URL it built in this.baseUrl
InvokeStoringUrl(c, m, args, endpoint, options) ==
    /\ calls' = Append(calls, request(c, m, args, endpoint, options))
    /\ sdk' = [sdk EXCEPT ![c].baseUrl = RequestUrl(c, endpoint)]
    /\ UNCHANGED config

Invoke(c, m, args, endpoint, options) ==
    /\ calls' = Append(calls, request(c, m, args, endpoint, options))
    /\ UNCHANGED <<config, sdk>>

----------------------------------------------------------------------------
(* The resource-group methods.  The arguments of a call are                *)
(*   id     the positional argument (providerId, inventoryId, providerName, *)
(*          deploymentId), Undefined where the method has none,            *)
(*   given  whether the params object was passed at all,                   *)
(*   p      the members of params, Undefined for a member not passed.      *)

ParamNames ==
    {"provider_id", "region_id", "instance_type", "min_vcpu",
     "max_price_usd_hr", "accel_model", "availability_type", "limit",
     "offset", "region_code", "status", "start_date", "end_date", "endpoint",
     "cloud_inventory_id", "rental_duration_hours"}

NoParams == [x \in ParamNames |-> Undefined]
NoArgs   == [id |-> Undefined, given |-> FALSE, p |-> NoParams]

\* params?.name
Param(args, name) == IF args.given THEN args.p[name] ELSE Undefined


\* a slip: only undefined and null are left out (v != null)
SetIfPresent(sp, v, name) ==
    IF v.t \notin {"undefined", "null"}
    THEN SearchParamsSet(sp, <<name>>, ValueText(v)) ELSE sp

\* if (v) searchParams.set(name, v)    (v.toString() for a number)
SetIf(sp, v, name) ==
    IF Truthy(v) THEN SearchParamsSet(sp, <<name>>, ValueText(v)) ELSE sp

RECURSIVE SetParams(_, _, _)
\* the `if (params?.name) searchParams.set(...)` lines of a method, in order
SetParams(sp, args, names) ==
    IF names = <<>> THEN sp
    ELSE SetParams(SetIf(sp, Param(args, Head(names)), Head(names)),
                   args, Tail(names))

\* `${path}${searchParams.toString() ? `?${searchParams}` : ''}`
WithQuery(path, sp) ==
    IF SearchParamsToString(sp) # <<>>
    THEN path \o <<"?">> \o SearchParamsToString(sp)
    ELSE path

ProviderIdQuery(args) == SetIf(<<>>, args.id, "provider_id")

InventoryListNames ==
    <<"provider_id", "region_id", "instance_type", "min_vcpu",
      "max_price_usd_hr", "accel_model", "availability_type", "limit",
      "offset">>
GetByProviderNames ==
    <<"region_code", "instance_type", "min_vcpu", "max_price_usd_hr",
      "limit", "offset">>
DeploymentsListNames == <<"limit", "offset", "status">>
GetLogsNames == <<"limit", "offset", "start_date", "end_date", "endpoint">>
DateRangeNames == <<"start_date", "end_date">>
CreateNames == <<"cloud_inventory_id", "rental_duration_hours">>

RECURSIVE Stringify(_, _)
\* JSON.stringify(params): the members in order, those undefined left out
\* (a NaN member is written as null)
Stringify(args, names) ==
    IF names = <<>> THEN <<>>
    ELSE (IF args.p[Head(names)].t = "undefined" THEN <<>>
          ELSE <<<<Head(names),
                   IF args.p[Head(names)].t = "NaN" THEN Null
                   ELSE args.p[Head(names)]>>>>)
         \o Stringify(args, Tail(names))

providers_list(c, args) ==
    Invoke(c, "providers.list", args, <<"/", "sdk-providers">>, NoOptions)

providers_getRegions(c, args) ==
    Invoke(c, "providers.getRegions", args,
           WithQuery(<<"/", "sdk-providers", "/", "regions">>,
                     ProviderIdQuery(args)),
           NoOptions)

providers_getTemplates(c, args) ==
    Invoke(c, "providers.getTemplates", args,
           WithQuery(<<"/", "sdk-providers", "/", "templates">>,
                     ProviderIdQuery(args)),
           NoOptions)

inventory_list(c, args) ==
    Invoke(c, "inventory.list", args,
           WithQuery(<<"/", "sdk-inventory">>,
                     SetParams(<<>>, args, InventoryListNames)),
           NoOptions)

inventory_get(c, args) ==
    Invoke(c, "inventory.get", args,
           <<"/", "sdk-inventory", "/">> \o args.id.s, NoOptions)

\* searchParams.set('provider', providerName) comes first and has no `if`
GetByProviderQuery(args) ==
    SetParams(SearchParamsSet(<<>>, <<"provider">>, args.id.s),
              args, GetByProviderNames)

inventory_getByProvider(c, args) ==
    Invoke(c, "inventory.getByProvider", args,
           WithQuery(<<"/", "sdk-inventory", "/", "provider", "/">>
                         \o args.id.s,
                     GetByProviderQuery(args)),
           NoOptions)

deployments_create(c, args) ==
    Invoke(c, "deployments.create", args, <<"/", "sdk-deployments">>,
           [method |-> "POST", hasBody |-> TRUE,
            body |-> Stringify(args, CreateNames), headers |-> NoHeaders])

deployments_list(c, args) ==
    Invoke(c, "deployments.list", args,
           WithQuery(<<"/", "sdk-deployments">>,
                     SetParams(<<>>, args, DeploymentsListNames)),
           NoOptions)

deployments_get(c, args) ==
    Invoke(c, "deployments.get", args,
           <<"/", "sdk-deployments", "/">> \o args.id.s, NoOptions)

usage_getLogs(c, args) ==
    Invoke(c, "usage.getLogs", args,
           WithQuery(<<"/", "sdk-usage-tracking", "/", "logs">>,
                     SetParams(<<>>, args, GetLogsNames)),
           NoOptions)

usage_getSummary(c, args) ==
    Invoke(c, "usage.getSummary", args,
           WithQuery(<<"/", "sdk-usage-tracking", "/", "summary">>,
                     SetParams(<<>>, args, DateRangeNames)),
           NoOptions)

usage_getBilling(c, args) ==
    Invoke(c, "usage.getBilling", args,
           WithQuery(<<"/", "sdk-usage-tracking", "/", "billing">>,
                     SetParams(<<>>, args, DateRangeNames)),
           NoOptions)

----------------------------------------------------------------------------
(* request(): what runs when the awaited fetch and response.json() settle. *)

\* fetch resolves with a response of this status; request() goes on to
\* await response.json()
FetchResolve(i, status) ==
    /\ calls[i].pc = "fetch"
    /\ calls' = [calls EXCEPT ![i].pc = "json", ![i].status = status]
    /\ UNCHANGED <<config, sdk>>


\* a slip: a failed fetch is tried once more
FetchRetry(i) ==
    /\ calls[i].pc = "fetch"
    /\ calls' = IF calls[i].nfetch < 2
                THEN [calls EXCEPT ![i].nfetch = @ + 1]
                ELSE [calls EXCEPT ![i].pc = "rejected",
                                   ![i].result = [kind |-> "transport",
                                                  value |-> JNone,
                                                  message |-> <<"fetch failed">>]]
    /\ UNCHANGED <<config, sdk>>

\* fetch rejects (DNS, connection, timeout): nothing in request() catches
\* it, so the call rejects with the transport's error
FetchReject(i) ==
    /\ calls[i].pc = "fetch"
    /\ calls' = [calls EXCEPT ![i].pc = "rejected",
                              ![i].result = [kind |-> "transport",
                                             value |-> JNone,
                                             message |-> <<"fetch failed">>]]
    /\ UNCHANGED <<config, sdk>>

\* the rest of request() from the parsed body on
Settle(call, parsed) ==
    [call EXCEPT !.parsed = parsed,
                 !.result = Outcome(call.status, parsed),
                 !.pc = IF Outcome(call.status, parsed).kind = "value"
                        THEN "resolved" ELSE "rejected"]

\* response.json() resolves with the decoded body
JsonResolve(i, json) ==
    /\ calls[i].pc = "json"
    /\ calls' = [calls EXCEPT ![i] =
                    Settle([calls[i] EXCEPT !.decoded = "yes", !.body = json],
                           json)]
    /\ UNCHANGED <<config, sdk>>


\* a slip: no try/catch around response.json(), the decode error escapes
JsonRejectEscapes(i) ==
    /\ calls[i].pc = "json"
    /\ calls' = [calls EXCEPT ![i].decoded = "no",
                              ![i].pc = "rejected",
                              ![i].result = [kind |-> "SyntaxError",
                                             value |-> JNone,
                                             message |-> <<"Unexpected token">>]]
    /\ UNCHANGED <<config, sdk>>

\* response.json() rejects: the catch block puts ParseFailure in its place
JsonReject(i) ==
    /\ calls[i].pc = "json"
    /\ calls' = [calls EXCEPT ![i] =
                    Settle([calls[i] EXCEPT !.decoded = "no"], ParseFailure)]
    /\ UNCHANGED <<config, sdk>>

----------------------------------------------------------------------------
(* Inputs.                                                                 *)

NumberNames == {"min_vcpu", "max_price_usd_hr", "limit", "offset",
                "rental_duration_hours"}

\* values a caller passes for a string parameter and for a number parameter
StringVals == {Null, StrV(<<>>), StrV(<<"x">>),
               StrV(<<"x", " ", "&", "=", "y">>)}
NumberVals == {Null, NumV(0), NaN, NumV(24), NumV(0 - 3)}

ValsOf(name) == IF name \in NumberNames THEN NumberVals ELSE StringVals

\* identifiers: opaque strings, not validated by the client
IdVals == {StrV(<<>>), StrV(<<"x">>), StrV(<<"x", " ">>),
           StrV(<<"x", "?", "y">>), StrV(<<"x", "#", "y">>)}

Range(seq) == {seq[i] : i \in 1..Len(seq)}

\* params objects over `names` with at most MaxSetParams members passed
ParamsOver(names) ==
    UNION {{[x \in ParamNames |-> IF x \in S THEN f[x] ELSE Undefined] :
               f \in {g \in [S -> StringVals \cup NumberVals] :
                          \A x \in S : g[x] \in ValsOf(x)}} :
           S \in {T \in SUBSET Range(names) : Cardinality(T) <= MaxSetParams}}

\* every way to call a method with a params object over `names`
WithParams(ids, names) ==
    {[id |-> i, given |-> FALSE, p |-> NoParams] : i \in ids}
    \cup {[id |-> i, given |-> TRUE, p |-> q] :
              i \in ids, q \in ParamsOver(names)}

RichArgs(m) ==
    CASE m = "providers.list"          -> {NoArgs}
      [] m = "providers.getRegions"    ->
             {[NoArgs EXCEPT !.id = i] : i \in {Undefined} \cup StringVals}
      [] m = "providers.getTemplates"  ->
             {[NoArgs EXCEPT !.id = i] : i \in {Undefined} \cup StringVals}
      [] m = "inventory.list"          ->
             WithParams({Undefined}, InventoryListNames)
      [] m = "inventory.get"           -> {[NoArgs EXCEPT !.id = i] : i \in IdVals}
      [] m = "inventory.getByProvider" -> WithParams(IdVals, GetByProviderNames)
      [] m = "deployments.create"      ->
             {a \in WithParams({Undefined}, CreateNames) : a.given}
      [] m = "deployments.list"        ->
             WithParams({Undefined}, DeploymentsListNames)
      [] m = "deployments.get"         -> {[NoArgs EXCEPT !.id = i] : i \in IdVals}
      [] m = "usage.getLogs"           -> WithParams({Undefined}, GetLogsNames)
      [] m = "usage.getSummary"        -> WithParams({Undefined}, DateRangeNames)
      [] m = "usage.getBilling"        -> WithParams({Undefined}, DateRangeNames)

\* one plain call of each method
BasicArgs(m) ==
    CASE m \in {"inventory.get", "inventory.getByProvider", "deployments.get"}
             -> {[NoArgs EXCEPT !.id = StrV(<<"x">>)]}
      [] m = "deployments.create"
             -> {[id |-> Undefined, given |-> TRUE,
                  p |-> [NoParams EXCEPT
                            !["cloud_inventory_id"] = StrV(<<"x">>),
                            !["rental_duration_hours"] = NumV(24)]]}
      [] OTHER -> {NoArgs}

ArgsFor(kind, m) == IF kind = "rich" THEN RichArgs(m) ELSE BasicArgs(m)

BaseUrl1 == <<"https:", "/", "/", "host", "/", "v1", "/">>
BaseUrl2 == <<"https:", "/", "/", "host", "/", "v1">>
ApiKey1  == <<"sk-1">>
ApiKey2  == <<"k", " ", "%", "2">>

RECURSIVE TextsUpTo(_)
\* the strings over h and / of length at most len
TextsUpTo(len) ==
    IF len = 0 THEN {<<>>}
    ELSE TextsUpTo(len - 1)
         \cup {Append(t, ch) : t \in TextsUpTo(len - 1), ch \in {"h", "/"}}

BasicStatuses == {200, 500}
BasicBodies   == {JObj(StrF(<<"Insufficient wallet balance">>), AbsentF)}

RichStatuses == {200, 299, 300, 400, 500}
RichBodies ==
    {JObj(StrF(<<"Insufficient wallet balance">>), AbsentF),
     JObj(StrF(<<"Insufficient wallet balance">>), StrF(<<"x">>)),
     JObj(StrF(<<>>), AbsentF),
     JObj(NumF(42), AbsentF),
     JObj(NullF, AbsentF),
     JObj(AbsentF, StrF(<<"x">>)),
     JObj(AbsentF, AbsentF),
     ParseFailure,
     JNull, JArray, JNum(7), JStr(<<"Bad Gateway">>)}

----------------------------------------------------------------------------
(* Specifications.                                                         *)

\* when the caller of a specification may start another call on client c
MayCall(mode, c) ==
    CASE mode = "concurrent" -> Len(calls) < MaxCalls
      [] mode = "single"     -> calls = <<>>
      [] mode = "each"       -> \A i \in 1..Len(calls) : calls[i].client # c

\* one step of the program: a caller calls a public method of a client, or
\* the transport or the server answers a pending call
Step(kind, mode, statuses, bodies) ==
    \/ \E c \in Clients :
           /\ MayCall(mode, c)
           /\ \E a \in ArgsFor(kind, "providers.list") : providers_list(c, a)
    \/ \E c \in Clients :
           /\ MayCall(mode, c)
           /\ \E a \in ArgsFor(kind, "providers.getRegions") : providers_getRegions(c, a)
    \/ \E c \in Clients :
           /\ MayCall(mode, c)
           /\ \E a \in ArgsFor(kind, "providers.getTemplates") : providers_getTemplates(c, a)
    \/ \E c \in Clients :
           /\ MayCall(mode, c)
           /\ \E a \in ArgsFor(kind, "inventory.list") : inventory_list(c, a)
    \/ \E c \in Clients :
           /\ MayCall(mode, c)
           /\ \E a \in ArgsFor(kind, "inventory.get") : inventory_get(c, a)
    \/ \E c \in Clients :
           /\ MayCall(mode, c)
           /\ \E a \in ArgsFor(kind, "inventory.getByProvider") : inventory_getByProvider(c, a)
    \/ \E c \in Clients :
           /\ MayCall(mode, c)
           /\ \E a \in ArgsFor(kind, "deployments.create") : deployments_create(c, a)
    \/ \E c \in Clients :
           /\ MayCall(mode, c)
           /\ \E a \in ArgsFor(kind, "deployments.list") : deployments_list(c, a)
    \/ \E c \in Clients :
           /\ MayCall(mode, c)
           /\ \E a \in ArgsFor(kind, "deployments.get") : deployments_get(c, a)
    \/ \E c \in Clients :
           /\ MayCall(mode, c)
           /\ \E a \in ArgsFor(kind, "usage.getLogs") : usage_getLogs(c, a)
    \/ \E c \in Clients :
           /\ MayCall(mode, c)
           /\ \E a \in ArgsFor(kind, "usage.getSummary") : usage_getSummary(c, a)
    \/ \E c \in Clients :
           /\ MayCall(mode, c)
           /\ \E a \in ArgsFor(kind, "usage.getBilling") : usage_getBilling(c, a)
    \/ \E i \in 1..Len(calls) : \E st \in statuses : FetchResolve(i, st)
    \/ \E i \in 1..Len(calls) : FetchReject(i)
    \/ \E i \in 1..Len(calls) : \E json \in bodies : JsonResolve(i, json)
    \/ \E i \in 1..Len(calls) : JsonReject(i)

TypeOK ==
    /\ DOMAIN config = DOMAIN sdk
    /\ \A i \in 1..Len(calls) :
           /\ calls[i].client \in Clients
           /\ calls[i].pc \in {"fetch", "json", "resolved", "rejected"}

\* Spec: one client, up to MaxCalls calls in flight at once, interleaved
Init ==
    /\ config = <<[baseUrl |-> BaseUrl1, apiKey |-> ApiKey2]>>
    /\ sdk = [c \in DOMAIN config |-> New(config[c])]
    /\ calls = <<>>

Next == Step("basic", "concurrent", BasicStatuses, BasicBodies)

Spec == Init /\ [][Next]_vars

\* SpecQuery: one call, its arguments drawn from the rich argument sets
InitQuery ==
    /\ config = <<[baseUrl |-> BaseUrl2, apiKey |-> ApiKey1]>>
    /\ sdk = [c \in DOMAIN config |-> New(config[c])]
    /\ calls = <<>>

NextQuery == Step("rich", "single", {200}, BasicBodies)

SpecQuery == InitQuery /\ [][NextQuery]_vars

\* SpecResponse: one call, answered in every way
NextResponse == Step("basic", "single", RichStatuses, RichBodies)

SpecResponse == InitQuery /\ [][NextResponse]_vars

\* SpecUrl: two clients with the same apiKey whose baseUrl values differ by
\* one trailing '/', each called once
InitUrl ==
    /\ \E b \in TextsUpTo(MaxBaseLen) :
           config = <<[baseUrl |-> b, apiKey |-> ApiKey1],
                      [baseUrl |-> b \o <<"/">>, apiKey |-> ApiKey1]>>
    /\ sdk = [c \in DOMAIN config |-> New(config[c])]
    /\ calls = <<>>

NextUrl == Step("basic", "each", {200}, BasicBodies)

SpecUrl == InitUrl /\ [][NextUrl]_vars

----------------------------------------------------------------------------
(* Reading a request back: what the URL handed to fetch carries.           *)

Settled(call) == call.pc \in {"resolved", "rejected"}

\* the values a header list gives a header name
HeaderValues(headers, name) ==
    {headers[j][2] : j \in {k \in 1..Len(headers) : headers[k][1] = name}}

\* the first position of token tok in str, 0 when it does not occur
IndexOf(str, tok) ==
    IF \E i \in 1..Len(str) : str[i] = tok
    THEN CHOOSE i \in 1..Len(str) :
             str[i] = tok /\ \A j \in 1..(i - 1) : str[j] # tok
    ELSE 0

\* the last position of token tok in str, 0 when it does not occur
LastIndexOf(str, tok) ==
    IF \E i \in 1..Len(str) : str[i] = tok
    THEN CHOOSE i \in 1..Len(str) :
             str[i] = tok /\ \A j \in (i + 1)..Len(str) : str[j] # tok
    ELSE 0

Before(str, tok) ==
    IF IndexOf(str, tok) = 0 THEN str ELSE SubSeq(str, 1, IndexOf(str, tok) - 1)

After(str, tok) ==
    IF IndexOf(str, tok) = 0 THEN <<>>
    ELSE SubSeq(str, IndexOf(str, tok) + 1, Len(str))

\* the query of a URL: what follows its first '?', the fragment (from the
\* first '#' on) left out, as a URL parser splits it
UrlQuery(url) == After(Before(url, "#"), "?")

\* the query string a method appended to its path: the text after the last
\* '?' of the endpoint (a serialised URLSearchParams holds no bare '?')
AppendedQuery(endpoint) ==
    IF LastIndexOf(endpoint, "?") = 0 THEN <<>>
    ELSE SubSeq(endpoint, LastIndexOf(endpoint, "?") + 1, Len(endpoint))

DecodeChar(c) ==
    CASE c = "+"   -> " "
      [] c = "%26" -> "&"
      [] c = "%3D" -> "="
      [] c = "%23" -> "#"
      [] c = "%3F" -> "?"
      [] c = "%2F" -> "/"
      [] c = "%2B" -> "+"
      [] c = "%25" -> "%"
      [] OTHER     -> c

RECURSIVE FormDecode(_)
FormDecode(str) ==
    IF str = <<>> THEN <<>>
    ELSE <<DecodeChar(Head(str))>> \o FormDecode(Tail(str))

RECURSIVE QueryPairs(_)
\* the <<name, value>> pairs of a query string, decoded
QueryPairs(query) ==
    IF query = <<>> THEN <<>>
    ELSE LET part == Before(query, "&")
         IN  (IF part = <<>> THEN <<>>
              ELSE <<<<FormDecode(Before(part, "=")),
                       FormDecode(After(part, "="))>>>>)
             \o QueryPairs(After(query, "&"))

\* the values the pairs give a parameter name, one entry per occurrence
Occurrences(pairs, name) == {k \in 1..Len(pairs) : pairs[k][1] = <<name>>}

\* the optional query parameters of a method
OptionalNames(m) ==
    CASE m \in {"providers.getRegions", "providers.getTemplates"}
             -> {"provider_id"}
      [] m = "inventory.list"
             -> {"provider_id", "region_id", "instance_type", "min_vcpu",
                 "max_price_usd_hr", "accel_model", "availability_type",
                 "limit", "offset"}
      [] m = "inventory.getByProvider"
             -> {"region_code", "instance_type", "min_vcpu",
                 "max_price_usd_hr", "limit", "offset"}
      [] m = "deployments.list" -> {"limit", "offset", "status"}
      [] m = "usage.getLogs"
             -> {"limit", "offset", "start_date", "end_date", "endpoint"}
      [] m \in {"usage.getSummary", "usage.getBilling"}
             -> {"start_date", "end_date"}
      [] OTHER -> {}

\* the value the caller gave the optional parameter `name` of the call
Given(call, name) ==
    IF call.method \in {"providers.getRegions", "providers.getTemplates"}
    THEN call.args.id
    ELSE IF call.args.given THEN call.args.p[name] ELSE Undefined

\* the string form of a value: a string as it is, a number in decimal
TextOf(v) ==
    CASE v.t = "string" -> v.s
      [] v.t = "NaN"    -> <<"NaN">>
      [] v = NumV(0)    -> <<"0">>
      [] v = NumV(24)   -> <<"2", "4">>
      [] v = NumV(0 - 3) -> <<"-", "3">>
      [] OTHER          -> <<>>

\* parameter `name` is in `pairs` exactly once, with the string form of v
IncludedOnce(pairs, name, v) ==
    /\ Cardinality(Occurrences(pairs, name)) = 1
    /\ \A k \in Occurrences(pairs, name) : pairs[k][2] = TextOf(v)

Omitted(pairs, name) == Occurrences(pairs, name) = {}

----------------------------------------------------------------------------
(* Claims.                                                                 *)

\* C1: every request a public method issues carries x-api-key equal to the
\* apiKey given to the constructor, verbatim, and Content-Type equal to
\* application/json; neither header is missing or has another value.
C1_FixedHeaders ==
    \A i \in 1..Len(calls) :
        /\ HeaderValues(calls[i].init.headers, "x-api-key")
               = {config[calls[i].client].apiKey}
        /\ HeaderValues(calls[i].init.headers, "Content-Type")
               = {<<"application/json">>}

\* a POST of deployments.create is on its way with a key that holds a space
\* and a '%', unchanged
C1_Witness ==
    \E i \in 1..Len(calls) :
        /\ calls[i].method = "deployments.create"
        /\ calls[i].init.method = "POST"
        /\ config[calls[i].client].apiKey = <<"k", " ", "%", "2">>
        /\ HeaderValues(calls[i].init.headers, "x-api-key")
               = {<<"k", " ", "%", "2">>}

\* C2: a response that is not ok whose decoded body is an object with a
\* string `error` member makes the call throw an Error with exactly that
\* string as its message; the call does not resolve.
C2_ErrorFieldIsMessage ==
    \A i \in 1..Len(calls) :
        ( /\ Settled(calls[i])
          /\ calls[i].status # 0
          /\ ~(calls[i].status \in 200..299)
          /\ calls[i].decoded = "yes"
          /\ calls[i].body.t = "object"
          /\ calls[i].body.f.error.t = "string" )
        => /\ calls[i].pc = "rejected"
           /\ calls[i].result.kind = "Error"
           /\ calls[i].result.message = calls[i].body.f.error.s

C2_Witness ==
    \E i \in 1..Len(calls) :
        /\ calls[i].status = 400
        /\ calls[i].body = JObj(StrF(<<"Insufficient wallet balance">>), AbsentF)
        /\ calls[i].pc = "rejected"
        /\ calls[i].result.message = <<"Insufficient wallet balance">>

\* whether the body the server sent is an object with a string `error`
BodyHasStringError(call) ==
    /\ call.decoded = "yes"
    /\ call.body.t = "object"
    /\ call.body.f.error.t = "string"

HttpStatusText(status) ==
    CASE status = 300 -> <<"HTTP ", "3", "0", "0">>
      [] status = 400 -> <<"HTTP ", "4", "0", "0">>
      [] status = 500 -> <<"HTTP ", "5", "0", "0">>
      [] OTHER        -> <<"HTTP ", "?">>

\* C3 as stated: a response that is not ok whose body has no string `error`
\* member (absent, not a string, or the body is not an object) makes the
\* call throw an Error with the message "HTTP <status>".
C3_AsStated ==
    \A i \in 1..Len(calls) :
        ( /\ Settled(calls[i])
          /\ calls[i].status # 0
          /\ ~(calls[i].status \in 200..299)
          /\ ~BodyHasStringError(calls[i]) )
        => /\ calls[i].pc = "rejected"
           /\ calls[i].result.kind = "Error"
           /\ calls[i].result.message = HttpStatusText(calls[i].status)

\* C3 amended: a response that is not ok whose body decodes as JSON to a
\* value with no string `error` member makes the call throw an Error with
\* the message "HTTP <status>".
C3_StatusMessage ==
    \A i \in 1..Len(calls) :
        ( /\ Settled(calls[i])
          /\ calls[i].status # 0
          /\ ~(calls[i].status \in 200..299)
          /\ calls[i].decoded = "yes"
          /\ ~BodyHasStringError(calls[i]) )
        => /\ calls[i].pc = "rejected"
           /\ calls[i].result.kind = "Error"
           /\ calls[i].result.message = HttpStatusText(calls[i].status)

C3_Witness ==
    \E i \in 1..Len(calls) :
        /\ calls[i].status = 500
        /\ calls[i].body = JObj(NumF(42), AbsentF)
        /\ calls[i].pc = "rejected"
        /\ calls[i].result.message = <<"HTTP ", "5", "0", "0">>

\* C4: when decoding the body fails the decode error does not reach the
\* caller; the call goes on as if the server had sent the object
\* {error: "Failed to parse response body as JSON"} with the same status:
\* it resolves with that object when the status is in 200-299 and throws
\* through the status check otherwise.
C4_DecodeFailureSwallowed ==
    \A i \in 1..Len(calls) :
        (Settled(calls[i]) /\ calls[i].decoded = "no")
        => /\ calls[i].result.kind \in {"value", "Error"}
           /\ calls[i].status \in 200..299
                  => /\ calls[i].pc = "resolved"
                     /\ calls[i].result.kind = "value"
                     /\ calls[i].result.value
                            = JObj(StrF(<<"Failed to parse response body as JSON">>),
                                   AbsentF)
           /\ ~(calls[i].status \in 200..299)
                  => /\ calls[i].pc = "rejected"
                     /\ calls[i].result.kind = "Error"
                     /\ calls[i].result.message
                            = <<"Failed to parse response body as JSON">>

C4_Witness ==
    \E i \in 1..Len(calls) :
        /\ calls[i].decoded = "no"
        /\ calls[i].status = 200
        /\ calls[i].pc = "resolved"
        /\ calls[i].result.value.f.error.s
               = <<"Failed to parse response body as JSON">>

C6_AsStated ==
    \A i \in 1..Len(calls) :
        \A name \in OptionalNames(calls[i].method) :
            LET v     == Given(calls[i], name)
                pairs == QueryPairs(AppendedQuery(calls[i].endpoint))
            IN  IF v \in {Undefined, Null, NumV(0), StrV(<<>>)}
                THEN Omitted(pairs, name)
                ELSE IncludedOnce(pairs, name, v)

\* C6 amended: each optional query parameter of each method is left out of
\* the query string the method builds when its value is falsy (undefined,
\* null, zero, NaN or the empty string), and is otherwise in it exactly
\* once with its value in string form.
C6_FalsyOmitted ==
    \A i \in 1..Len(calls) :
        \A name \in OptionalNames(calls[i].method) :
            LET v     == Given(calls[i], name)
                pairs == QueryPairs(AppendedQuery(calls[i].endpoint))
            IN  IF v \in {Undefined, Null, NumV(0), NaN, StrV(<<>>)}
                THEN Omitted(pairs, name)
                ELSE IncludedOnce(pairs, name, v)

\* inventory.list({min_vcpu: 0, limit: 24}) asks for /sdk-inventory?limit=24
C6_Witness ==
    \E i \in 1..Len(calls) :
        /\ calls[i].method = "inventory.list"
        /\ calls[i].args.given
        /\ calls[i].args.p["min_vcpu"] = NumV(0)
        /\ calls[i].args.p["limit"] = NumV(24)
        /\ calls[i].endpoint
               = <<"/", "sdk-inventory", "?", "limit", "=", "2", "4">>

\* C7 as stated: two clients with the same apiKey whose baseUrl values
\* differ only by one trailing '/' issue the same URL for the same method
\* call with the same arguments.
C7_AsStated ==
    \A i, j \in 1..Len(calls) :
        ( /\ config[calls[i].client].apiKey = config[calls[j].client].apiKey
          /\ config[calls[j].client].baseUrl
                 = config[calls[i].client].baseUrl \o <<"/">>
          /\ calls[i].method = calls[j].method
          /\ calls[i].args = calls[j].args )
        => calls[i].url = calls[j].url

\* C7 amended: two clients with the same apiKey, one with a baseUrl that
\* does not end with '/' and the other with that baseUrl followed by one
\* '/', issue the same URL for the same method call with the same arguments.
C7_TrailingSlashIrrelevant ==
    \A i, j \in 1..Len(calls) :
        LET short == config[calls[i].client].baseUrl
        IN  ( /\ config[calls[i].client].apiKey
                     = config[calls[j].client].apiKey
              /\ config[calls[j].client].baseUrl = short \o <<"/">>
              /\ ~(short # <<>> /\ short[Len(short)] = "/")
              /\ calls[i].method = calls[j].method
              /\ calls[i].args = calls[j].args )
            => calls[i].url = calls[j].url

\* baseUrl "/h" and "/h/": both clients ask for /h/sdk-inventory/x
C7_Witness ==
    \E i, j \in 1..Len(calls) :
        /\ config[calls[i].client].baseUrl = <<"/", "h">>
        /\ config[calls[j].client].baseUrl = <<"/", "h", "/">>
        /\ calls[i].method = "inventory.get"
        /\ calls[j].method = "inventory.get"
        /\ calls[i].url = <<"/", "h", "/", "sdk-inventory", "/", "x">>
        /\ calls[j].url = calls[i].url

\* the provider parameter of a getByProvider request: once in the query of
\* the URL, equal to providerName
ProviderSent(call) ==
    LET pairs == QueryPairs(UrlQuery(call.url))
    IN  /\ Cardinality(Occurrences(pairs, "provider")) = 1
        /\ \A k \in Occurrences(pairs, "provider") : pairs[k][2] = call.args.id.s

\* C8: the request of inventory.getByProvider(providerName, params) has a
\* `provider` query parameter equal to providerName, for every providerName
\* and every params, and its other parameters are left out when undefined,
\* null, zero or empty and sent once otherwise.
C8_ProviderAlwaysSent ==
    \A i \in 1..Len(calls) :
        calls[i].method = "inventory.getByProvider"
        => /\ ProviderSent(calls[i])
           /\ \A name \in OptionalNames(calls[i].method) :
                  LET v     == Given(calls[i], name)
                      pairs == QueryPairs(UrlQuery(calls[i].url))
                  IN  /\ v \in {Undefined, Null, NumV(0), StrV(<<>>)}
                          => Omitted(pairs, name)
                      /\ Truthy(v) => IncludedOnce(pairs, name, v)

\* C9: baseUrl and apiKey hold what the constructor set, in every state,
\* whatever calls have been made, are pending or have ended; every call
\* built its URL and its key header from them.
C9_ConfigurationFrozen ==
    /\ \A c \in Clients :
           /\ sdk[c].apiKey = config[c].apiKey
           /\ sdk[c].baseUrl \o <<"/">>
                  \in {config[c].baseUrl, config[c].baseUrl \o <<"/">>}
           /\ config[c].baseUrl \in {BaseUrl1, BaseUrl2}
                  => sdk[c].baseUrl = <<"https:", "/", "/", "host", "/", "v1">>
    /\ \A i, j \in 1..Len(calls) :
           calls[i].client = calls[j].client
           => /\ SubSeq(calls[i].url, 1, Len(calls[i].url) - Len(calls[i].endpoint))
                    = SubSeq(calls[j].url, 1,
                             Len(calls[j].url) - Len(calls[j].endpoint))
              /\ HeaderValues(calls[i].init.headers, "x-api-key")
                    = HeaderValues(calls[j].init.headers, "x-api-key")

\* a second call was made and has thrown while the first is still awaiting
\* its body
C9_Witness ==
    /\ Len(calls) = 2
    /\ calls[1].client = calls[2].client
    /\ calls[1].pc = "json"
    /\ calls[2].pc = "rejected"
    /\ sdk[calls[1].client].baseUrl = BaseUrl2

\* whether the URL of a call has '//' where baseUrl and endpoint meet
DoubledAtJoin(call) ==
    LET join == Len(call.url) - Len(call.endpoint)
    IN  /\ join >= 1
        /\ call.url[join] = "/"
        /\ call.url[join + 1] = "/"

\* C10 as stated: for every baseUrl, the URL of a request has no doubled
\* '/' where the normalised baseUrl and the endpoint path meet.
C10_AsStated == \A i \in 1..Len(calls) : ~DoubledAtJoin(calls[i])

EndsWithTwoSlashes(str) ==
    Len(str) >= 2 /\ str[Len(str)] = "/" /\ str[Len(str) - 1] = "/"

\* C10 amended: for every baseUrl that does not end with two or more '/',
\* the URL of a request has no doubled '/' where the normalised baseUrl and
\* the endpoint path meet.
C10_NoDoubledSeparator ==
    \A i \in 1..Len(calls) :
        ~EndsWithTwoSlashes(config[calls[i].client].baseUrl)
        => ~DoubledAtJoin(calls[i])

C10_Witness ==
    \E i \in 1..Len(calls) :
        /\ config[calls[i].client].baseUrl = <<"h", "/", "h", "/">>
        /\ calls[i].url = <<"h", "/", "h", "/", "sdk-providers">>

====
